---- MODULE Spec2Model ----
(***************************************************************************)
(* Model of @cobalt-ui/plugin-sass (packages/plugin-sass/src/index.ts) and *)
(* of the plugin build pipeline and alias resolver it is driven by.        *)
(*                                                                         *)
(* Text is modelled as a sequence of lines, a line as a sequence of string *)
(* pieces whose concatenation is the emitted text; property keys, which    *)
(* the code inspects character by character, are sequences of characters.  *)
(***************************************************************************)
EXTENDS Integers, Sequences, FiniteSets, TLC

VARIABLES
    tokens,      \* build input: the flat token sequence handed to build()
    options,     \* the Options the plugin was instantiated with
    config,      \* sass(): `let config` closed over by config() and build()
    phase,       \* position of the run
    result,      \* what build() returned or raised
    probe,       \* last direct call of the exported defaultTransformer
    metadata,    \* build input: document-level metadata
    plugins,     \* pipeline: registered plugins, in registration order
    cursor,      \* pipeline: the next plugin to configure or to invoke
    slots,       \* pipeline: per plugin, the outcome of its build step
    artifacts,   \* pipeline: aggregated BuildResult list
    persisted,   \* pipeline: files handed to the writer
    failure,     \* pipeline: the PluginError raised, if any
    log,         \* pipeline: order in which config/build steps started
    graph,       \* resolver: token id -> ids its value references
    resolution   \* resolver: outcome of alias resolution

vars == <<tokens, options, config, phase, result, probe, metadata, plugins, cursor,
          slots, artifacts, persisted, failure, log, graph, resolution>>

pluginVars == <<plugins, cursor, slots, artifacts, persisted, failure, log>>
resolverVars == <<graph, resolution>>

----------------------------------------------------------------------------
(* Bounds *)

MaxTokens == 2
MaxPlugins == 2
MaxRefs == 2

----------------------------------------------------------------------------
(* Characters and strings that the code takes apart *)

Lowers == <<"a","b","c","d","e","f","g","h","i","j","k","l","m",
            "n","o","p","q","r","s","t","u","v","w","x","y","z">>
Uppers == <<"A","B","C","D","E","F","G","H","I","J","K","L","M",
            "N","O","P","Q","R","S","T","U","V","W","X","Y","Z">>

IsUpper(c) == \E n \in DOMAIN Uppers : Uppers[n] = c
IsLower(c) == \E n \in DOMAIN Lowers : Lowers[n] = c

\* String.prototype.toLowerCase, one character
ToLowerChar(c) ==
    IF IsUpper(c) THEN Lowers[CHOOSE n \in DOMAIN Uppers : Uppers[n] = c] ELSE c

toLowerCase(s) == [n \in DOMAIN s |-> ToLowerChar(s[n])]

\* the text of a character sequence
RECURSIVE Text(_)
Text(s) == IF s = <<>> THEN "" ELSE Head(s) \o Text(Tail(s))

\* k.replace(CAMELCASE_RE, '$1-$2'): leftmost non-overlapping matches of a
\* character that is not A-Z followed by one that is.
RECURSIVE CamelReplaceFrom(_, _)
CamelReplaceFrom(s, n) ==
    IF n > Len(s) THEN <<>>
    ELSE IF n < Len(s) /\ ~IsUpper(s[n]) /\ IsUpper(s[n + 1])
         THEN <<s[n], "-", s[n + 1]>> \o CamelReplaceFrom(s, n + 2)
         ELSE <<s[n]>> \o CamelReplaceFrom(s, n + 1)

CAMELCASE_RE(s) == CamelReplaceFrom(s, 1)

\* const property = k.replace(CAMELCASE_RE, '$1-$2').toLowerCase()
PropertyName(k) == toLowerCase(CAMELCASE_RE(k))

\* Collation weights of a.localeCompare(b) (root collation): punctuation
\* before letters, letters by alphabet position regardless of case, and on a
\* tie lower case before upper case.
Primary(c) ==
    IF IsUpper(c) THEN CHOOSE n \in DOMAIN Uppers : Uppers[n] = c
    ELSE IF IsLower(c) THEN CHOOSE n \in DOMAIN Lowers : Lowers[n] = c
    ELSE 0

Tertiary(c) == IF IsUpper(c) THEN 1 ELSE 0

\* lexicographic comparison of two equal-typed weight sequences: -1, 0, 1
RECURSIVE SeqCompare(_, _)
SeqCompare(a, b) ==
    IF a = <<>> /\ b = <<>> THEN 0
    ELSE IF a = <<>> THEN -1
    ELSE IF b = <<>> THEN 1
    ELSE IF Head(a) < Head(b) THEN -1
    ELSE IF Head(a) > Head(b) THEN 1
    ELSE SeqCompare(Tail(a), Tail(b))

localeCompare(a, b) ==
    LET p == SeqCompare([n \in DOMAIN a |-> Primary(a[n])],
                        [n \in DOMAIN b |-> Primary(b[n])])
    IN  IF p # 0 THEN p
        ELSE SeqCompare([n \in DOMAIN a |-> Tertiary(a[n])],
                        [n \in DOMAIN b |-> Tertiary(b[n])])

\* entries.sort(([a], [b]) => a.localeCompare(b)): a stable insertion of
\* each entry <<key, value>> into the sorted prefix.
RECURSIVE InsertEntry(_, _)
InsertEntry(e, sorted) ==
    IF sorted = <<>> THEN <<e>>
    ELSE IF localeCompare(e[1], Head(sorted)[1]) < 0 THEN <<e>> \o sorted
    ELSE <<Head(sorted)>> \o InsertEntry(e, Tail(sorted))

RECURSIVE SortEntriesFrom(_, _)
SortEntriesFrom(entries, n) ==
    IF n = 0 THEN <<>>
    ELSE InsertEntry(entries[n], SortEntriesFrom(entries, n - 1))

SortEntries(entries) == SortEntriesFrom(entries, Len(entries))

----------------------------------------------------------------------------
(* Token values.  A value is a record tagged by its shape:                  *)
(*   [k |-> "str", s]                  a string (color, dimension, duration,*)
(*                                     link); "" is the falsy string        *)
(*   [k |-> "names", names]            font: a sequence of names, a name a  *)
(*                                     sequence of words                    *)
(*   [k |-> "nums", n]                 cubicBezier: four numbers            *)
(*   [k |-> "shadow", offsetX, ...]    shadow: a single shadow object       *)
(*   [k |-> "layers", layers]          shadow: an array of shadow objects   *)
(*   [k |-> "stops", stops]            gradient                             *)
(*   [k |-> "transition", duration, delay, timingFunction]                  *)
(*                                     timingFunction <<>> when undefined   *)
(*   [k |-> "props", entries]          typography: <<key, value>> entries   *)
(*                                     in the object's own key order        *)
(* A token is [id, type, value, mode]; mode is $extensions.mode as          *)
(* <<name, value>> entries in key order, <<>> when $extensions or           *)
(* $extensions.mode is missing or empty (the code treats these alike).      *)

Str(s) == [k |-> "str", s |-> s]

\* JavaScript truthiness of a value: of the shapes above only "" is falsy
Truthy(value) == ~(value.k = "str" /\ value.s = "")

RECURSIVE Join(_, _)
Join(strs, sep) ==
    IF strs = <<>> THEN ""
    ELSE IF Len(strs) = 1 THEN strs[1]
    ELSE strs[1] \o sep \o Join(Tail(strs), sep)

\* util.ts formatFontNames: names with a space are quoted, joined by ", "
formatFontNames(names) ==
    Join([n \in DOMAIN names |->
            IF Len(names[n]) > 1
            THEN "\"" \o Join(names[n], " ") \o "\""
            ELSE Join(names[n], " ")], ", ")

\* util.ts encode(value, outDir): the file `value` names under outDir,
\* inlined as a data literal
encode(value, outDir) == "url(data:" \o outDir \o "|" \o value \o ")"

transformColor(value) == value.s
transformDimension(value) == value.s
transformDuration(value) == value.s
transformFont(value) == formatFontNames(value.names)

NumStrings(nums) == [n \in DOMAIN nums |-> ToString(nums[n])]

transformCubicBezier(value) == "cubic-bezier(" \o Join(NumStrings(value.n), ", ") \o ")"
transformLink(value) == "url('" \o value.s \o "')"
\* value.<name> of a shadow value: the field of a shadow object; an array
\* of layers has no such property, so the access is undefined (<<>>)
ShadowField(value, name) == IF value.k = "shadow" THEN <<value[name]>> ELSE <<>>

\* Array.prototype.join writes an undefined element as the empty string
JoinElement(element) == IF element = <<>> THEN "" ELSE element[1]

transformShadow(value) ==
    Join(<<JoinElement(ShadowField(value, "offsetX")),
           JoinElement(ShadowField(value, "offsetY")),
           JoinElement(ShadowField(value, "blur")),
           JoinElement(ShadowField(value, "spread")),
           JoinElement(ShadowField(value, "color"))>>, " ")
transformGradient(value) ==
    Join([n \in DOMAIN value.stops |->
            value.stops[n].color \o " " \o ToString(value.stops[n].position * 100) \o "%"],
         ", ")
transformTransition(value) ==
    LET timing == IF value.timingFunction # <<>>
                  THEN <<"cubic-bezier(" \o Join(NumStrings(value.timingFunction), ",") \o ")">>
                  ELSE <<>>
    IN  Join(<<value.duration, value.delay>> \o timing, " ")

\* token.$extensions.mode[mode]: the value under key `mode`, or "undefined"
HasMode(token, mode) == \E n \in DOMAIN token.mode : token.mode[n][1] = mode
ModeValue(token, mode) ==
    token.mode[CHOOSE n \in DOMAIN token.mode : token.mode[n][1] = mode][2]

Ok(v) == [ok |-> TRUE, v |-> v]
Throw(msg) == [ok |-> FALSE, v |-> msg]

SupportedTypes == {"color", "dimension", "duration", "font", "cubicBezier",
                   "link", "shadow", "gradient", "transition"}

MissingModeError(token, mode) ==
    "Token " \o token.id \o " missing \"$extensions.mode." \o mode \o "\""

\* mode "" stands for an omitted mode argument (`mode &&` treats both alike)
ModeIsUsable(token, mode) == HasMode(token, mode) /\ Truthy(ModeValue(token, mode))

\* a defaultTransformer that falls back to the default $value where the code
\* throws over the mode
defaultTransformerFallsBack(token, mode) ==
    LET value == IF mode # "" /\ ModeIsUsable(token, mode)
                 THEN ModeValue(token, mode) ELSE token.value
    IN  CASE token.type = "color" -> Ok(transformColor(value))
          [] token.type = "dimension" -> Ok(transformDimension(value))
          [] token.type = "duration" -> Ok(transformDuration(value))
          [] token.type = "font" -> Ok(transformFont(value))
          [] token.type = "cubicBezier" -> Ok(transformCubicBezier(value))
          [] token.type = "link" -> Ok(transformLink(value))
          [] token.type = "shadow" -> Ok(transformShadow(value))
          [] token.type = "gradient" -> Ok(transformGradient(value))
          [] token.type = "transition" -> Ok(transformTransition(value))
          [] OTHER -> Throw("No transformer defined for $type: "
                            \o token.type \o " tokens")

\* a defaultTransformer whose default case formats instead of throwing
defaultTransformerLenient(token, mode) ==
    IF mode # "" /\ ~ModeIsUsable(token, mode)
    THEN Throw(MissingModeError(token, mode))
    ELSE LET value == IF mode # "" THEN ModeValue(token, mode) ELSE token.value
         IN  CASE token.type = "color" -> Ok(transformColor(value))
               [] token.type = "dimension" -> Ok(transformDimension(value))
               [] token.type = "duration" -> Ok(transformDuration(value))
               [] token.type = "font" -> Ok(transformFont(value))
               [] token.type = "cubicBezier" -> Ok(transformCubicBezier(value))
               [] token.type = "link" -> Ok(transformLink(value))
               [] token.type = "shadow" -> Ok(transformShadow(value))
               [] token.type = "gradient" -> Ok(transformGradient(value))
               [] token.type = "transition" -> Ok(transformTransition(value))
               [] OTHER -> Ok("")

defaultTransformer(token, mode) ==
    IF mode # "" /\ ~ModeIsUsable(token, mode)
    THEN Throw(MissingModeError(token, mode))
    ELSE LET value == IF mode # "" THEN ModeValue(token, mode) ELSE token.value
         IN  CASE token.type = "color" -> Ok(transformColor(value))
               [] token.type = "dimension" -> Ok(transformDimension(value))
               [] token.type = "duration" -> Ok(transformDuration(value))
               [] token.type = "font" -> Ok(transformFont(value))
               [] token.type = "cubicBezier" -> Ok(transformCubicBezier(value))
               [] token.type = "link" -> Ok(transformLink(value))
               [] token.type = "shadow" -> Ok(transformShadow(value))
               [] token.type = "gradient" -> Ok(transformGradient(value))
               [] token.type = "transition" -> Ok(transformTransition(value))
               [] OTHER -> Throw("No transformer defined for $type: "
                                 \o token.type \o " tokens")

----------------------------------------------------------------------------
(* The plugin: sass(options) *)

VAR_TOKENS == "__token-values"
VAR_TYPOGRAPHY == "__token-typography-mixins"
VAR_ERROR == "__cobalt-error"
DEPENDENCIES == <<"sass:list", "sass:map">>

\* const semi / cbOpen / cbClose, as pieces: a delimiter is a piece of its
\* own, the blank beside a brace another
semi(opts) == IF opts.indentedSyntax THEN <<>> ELSE <<";">>
cbOpen(opts) == IF opts.indentedSyntax THEN <<>> ELSE <<" ", "{">>
cbClose(opts) == IF opts.indentedSyntax THEN <<>> ELSE <<"}", " ">>

ext(opts) == IF opts.indentedSyntax THEN ".sass" ELSE ".scss"
\* options.filename is left unset: `... || 'index'`
filename(opts) == "index" \o ext(opts)

\* Indenter.indent(str, level): two blanks per level before the text
RECURSIVE Indent(_)
Indent(level) == IF level = 0 THEN "" ELSE "  " \o Indent(level - 1)

\* a line: its indentation, then its pieces
Line(level, pieces) == <<Indent(level)>> \o pieces

IsSpace(piece) == piece \in {"", " ", Indent(1), Indent(2), Indent(3)}

\* .replace(TRAILING_WS_RE, '') on one line: blanks at its end go
RECURSIVE StripTrailing(_)
StripTrailing(line) ==
    IF line # <<>> /\ IsSpace(line[Len(line)])
    THEN StripTrailing(SubSeq(line, 1, Len(line) - 1))
    ELSE line

\* .trim().replace(TRAILING_WS_RE, ''): \s+$ also takes the line break
\* before a line of blanks, so such a line disappears
TRAILING_WS_RE(lines) ==
    SelectSeq([n \in DOMAIN lines |-> StripTrailing(lines[n])],
              LAMBDA line : line # <<>>)

NoTokenError == "@error \"No token named \\\"#{$tokenName}\\\"\""

TOKEN_FN(opts) ==
    LET o == cbOpen(opts)
        c == cbClose(opts)
        s == semi(opts)
    IN  TRAILING_WS_RE(<<
          Line(0, <<"@function token($tokenName, $modeName: default)">> \o o),
          Line(1, <<"@if map.has-key($" \o VAR_TOKENS \o ", $tokenName) == false">> \o o),
          Line(2, <<NoTokenError>> \o s),
          Line(1, c),
          Line(1, <<"$_token: map.get($" \o VAR_TOKENS \o ", $tokenName)">> \o s),
          Line(1, <<"@if map.has-key($_token, \"__cobalt-error\")">> \o o),
          Line(2, <<"@error map.get($_token, \"__cobalt-error\")">> \o s),
          Line(1, c),
          Line(1, <<"@if map.has-key($_token, $modeName)", " ", "{">>),
          Line(2, <<"@return map.get($_token, $modeName)">> \o s),
          Line(1, c \o <<"@else">> \o o),
          Line(2, <<"@return map.get($_token, default)">> \o s),
          Line(1, c),
          Line(0, c) >>)

LIST_MODES_FN(opts) ==
    LET o == cbOpen(opts)
        c == cbClose(opts)
        s == semi(opts)
    IN  TRAILING_WS_RE(<<
          Line(0, <<"@function listModes($tokenName)">> \o o),
          Line(1, <<"@if map.has-key($" \o VAR_TOKENS \o ", $tokenName) == false">> \o o),
          Line(2, <<NoTokenError>> \o s),
          Line(1, c),
          Line(1, <<"$_modes: ()", ";">>),
          Line(1, <<"@each $k in map.get($" \o VAR_TOKENS \o ", $tokenName)">> \o o),
          Line(2, <<"@if $k != \"default\"">> \o o),
          Line(3, <<"$_modes: list.append($_modes, $k)", ";">>),
          Line(2, c),
          Line(1, c),
          Line(1, <<"@return $_modes", ";">>),
          Line(0, c) >>)

TYPOGRAPHY_MIXIN(opts) ==
    LET o == cbOpen(opts)
        c == cbClose(opts)
        s == semi(opts)
    IN  TRAILING_WS_RE(<<
          Line(0, <<"@mixin typography($tokenName, $modeName: default)">> \o o),
          Line(1, <<"@if map.has-key($" \o VAR_TYPOGRAPHY \o ", $tokenName) == false">> \o o),
          Line(2, <<"@error \"No typography mixin named \\\"#{$tokenName}\\\"\"">> \o s),
          Line(1, c),
          Line(1, <<"$_mixin: map.get($" \o VAR_TYPOGRAPHY \o ", $tokenName)">> \o s),
          Line(1, <<"$_properties: map.get($_mixin, default)">> \o s),
          Line(1, <<"@if map.has-key($_mixin, $modeName)">> \o o),
          Line(2, <<"$_properties: map.get($_mixin, $modeName)">> \o s),
          Line(1, c),
          Line(1, <<"@each $_property, $_value in $_properties">> \o o),
          Line(2, <<"#{$_property}: #{$_value}">> \o s),
          Line(1, c),
          Line(0, c) >>)

\* options.transform: the caller's override, one of a few sample functions
\*   "none"         no function supplied
\*   "all"          a non-empty literal for every token and mode
\*   "empty"        '' for every token and mode
\*   "defaultOnly"  a literal for the default value, '' for every mode
Transforms == {"none", "all", "empty", "defaultOnly"}

\* options.transform(token, mode); mode "" is the omitted argument
ApplyTransform(opts, token, mode) ==
    CASE opts.transform = "all" ->
            IF mode = "" THEN "T(" \o token.id \o ")"
            ELSE "T(" \o token.id \o "#" \o mode \o ")"
      [] opts.transform = "defaultOnly" ->
            IF mode = "" THEN "T(" \o token.id \o ")" ELSE ""
      [] OTHER -> ""

\* an override chain with ?? in place of ||: an empty override result stands
TransformOrDefaultNullish(opts, token, mode) ==
    IF opts.transform # "none" THEN Ok(ApplyTransform(opts, token, mode))
    ELSE defaultTransformer(token, mode)

\* (typeof options?.transform === 'function' && options.transform(token, mode))
\*   || defaultTransformer(token, mode)
TransformOrDefault(opts, token, mode) ==
    LET override == IF opts.transform # "none"
                    THEN ApplyTransform(opts, token, mode) ELSE ""
    IN  IF override # "" THEN Ok(override) ELSE defaultTransformer(token, mode)

\* if (token.$type === 'link' && options?.embedFiles) value = encode(value, config.outDir)
\* cfg is the closed-over `config`: <<>> while undefined, else <<ResolvedConfig>>
EmbedIfLink(opts, cfg, token, v) ==
    IF ~v.ok \/ ~(token.type = "link" /\ opts.embedFiles) THEN v
    ELSE IF cfg = <<>>
         THEN Throw("TypeError: Cannot read properties of undefined (reading 'outDir')")
         ELSE Ok(encode(v.v, cfg[1].outDir))

\* the value build() puts on the line of (token, mode)
EmittedValue(opts, cfg, token, mode) ==
    EmbedIfLink(opts, cfg, token, TransformOrDefault(opts, token, mode))

Lines(ls) == [ok |-> TRUE, lines |-> ls, error |-> ""]
Raised(msg) == [ok |-> FALSE, lines |-> <<>>, error |-> msg]

\* for (const modeName of Object.keys(... mode || {})), from the n-th key on
RECURSIVE ModeLines(_, _, _, _)
ModeLines(opts, cfg, token, n) ==
    IF n > Len(token.mode) THEN Lines(<<>>)
    ELSE LET modeName == token.mode[n][1]
             modeValue == EmittedValue(opts, cfg, token, modeName)
         IN  IF ~modeValue.ok THEN Raised(modeValue.v)
             ELSE LET rest == ModeLines(opts, cfg, token, n + 1)
                  IN  IF ~rest.ok THEN rest
                      ELSE Lines(<<Line(2, <<"\"", modeName, "\": (", modeValue.v, "),">>)>>
                                 \o rest.lines)

\* a loop body that pushes the default line after the mode lines
TokenEntryDefaultLast(opts, cfg, token) ==
    LET value == EmittedValue(opts, cfg, token, "")
        modes == ModeLines(opts, cfg, token, 1)
    IN  IF ~value.ok THEN Raised(value.v)
        ELSE IF ~modes.ok THEN modes
        ELSE Lines(<< Line(1, <<"\"", token.id, "\": (">>) >>
                   \o modes.lines
                   \o << Line(2, <<"default: (", value.v, "),">>),
                         Line(1, <<"),">>) >>)

\* one pass of `for (const token of tokens)`, lines 119-143 (a TLA+ string
\* cannot hold a backquote: the two in the message are written as quotes)
TokenEntry(opts, cfg, token) ==
    IF token.type = "typography"
    THEN Lines(<< Line(1, <<"\"", token.id, "\": (">>),
                  Line(2, <<"\"", VAR_ERROR, "\": ",
                            "\"This is a typography mixin. Use '@include typography(\\\""
                              \o token.id \o "\\\")' instead.\"", ",">>),
                  Line(1, <<"),">>) >>)
    ELSE LET value == EmittedValue(opts, cfg, token, "")
         IN  IF ~value.ok THEN Raised(value.v)
             ELSE LET modes == ModeLines(opts, cfg, token, 1)
                  IN  IF ~modes.ok THEN modes
                      ELSE Lines(<< Line(1, <<"\"", token.id, "\": (">>),
                                    Line(2, <<"default: (", value.v, "),">>) >>
                                 \o modes.lines
                                 \o << Line(1, <<"),">>) >>)

RECURSIVE TokenEntries(_, _, _, _)
TokenEntries(opts, cfg, toks, n) ==
    IF n > Len(toks) THEN Lines(<<>>)
    ELSE LET entry == TokenEntry(opts, cfg, toks[n])
         IN  IF ~entry.ok THEN entry
             ELSE LET rest == TokenEntries(opts, cfg, toks, n + 1)
                  IN  IF ~rest.ok THEN rest ELSE Lines(entry.lines \o rest.lines)

\* Object.entries(obj): a fresh array of the entries of obj, in key order
ObjectEntries(entries) == entries

\* Array.isArray(value) ? formatFontNames(value) : value
PropertyValue(value) ==
    IF value.k = "names" THEN formatFontNames(value.names) ELSE value.s

\* lines 152-157 and 161-166: sort the entries by key, then name and emit
PropertyLines(props) ==
    LET sorted == SortEntries(ObjectEntries(props.entries))
    IN  [n \in DOMAIN sorted |->
            Line(3, <<"\"", Text(PropertyName(sorted[n][1])), "\": (",
                      PropertyValue(sorted[n][2]), "),">>)]

RECURSIVE TypographyModes(_, _)
TypographyModes(token, n) ==
    IF n > Len(token.mode) THEN <<>>
    ELSE << Line(2, <<"\"", token.mode[n][1], "\": (">>) >>
         \o PropertyLines(token.mode[n][2])
         \o << Line(2, <<"),">>) >>
         \o TypographyModes(token, n + 1)

\* one pass of the loop over typographyTokens, lines 149-170
TypographyEntry(token) ==
    << Line(1, <<"\"", token.id, "\": (">>),
       Line(2, <<"default: (">>) >>
    \o PropertyLines(token.value)
    \o << Line(2, <<"),">>) >>
    \o TypographyModes(token, 1)
    \o << Line(1, <<"),">>) >>

RECURSIVE TypographyEntries(_, _)
TypographyEntries(typographyTokens, n) ==
    IF n > Len(typographyTokens) THEN <<>>
    ELSE TypographyEntry(typographyTokens[n])
         \o TypographyEntries(typographyTokens, n + 1)

Blank == <<"">>

Header(meta) ==
    << <<"", "////">>,
       <<"", "/// ", IF meta.name # "" THEN meta.name ELSE "Design Tokens">>,
       <<"", "/// Auto-generated from tokens.json.">>,
       <<"", "/// DO NOT EDIT!">>,
       <<"", "////">>,
       Blank >>

Uses(opts) ==
    [n \in DOMAIN DEPENDENCIES |-> <<"", "@use \"" \o DEPENDENCIES[n] \o "\"">> \o semi(opts)]

BuildOk(files) == [ok |-> TRUE, files |-> files, error |-> ""]
BuildRaised(msg) == [ok |-> FALSE, files |-> <<>>, error |-> msg]

\* async build({tokens, metadata}): the file it returns, or what it raises.
\* The body has no await: it runs to completion in one step.
build(opts, cfg, toks, meta) ==
    LET entries == TokenEntries(opts, cfg, toks, 1)
        typographyTokens == SelectSeq(toks, LAMBDA t : t.type = "typography")
    IN  IF ~entries.ok THEN BuildRaised(entries.error)
        ELSE BuildOk(<< [filename |-> filename(opts),
                         contents |->
                             Header(meta)
                             \o Uses(opts)
                             \o << Blank, Line(0, <<"$" \o VAR_TOKENS \o ": (">>) >>
                             \o entries.lines
                             \o << <<"", ")">> \o semi(opts), Blank,
                                   <<"", "$" \o VAR_TYPOGRAPHY \o ": (">> >>
                             \o TypographyEntries(typographyTokens, 1)
                             \o << <<"", ")">> \o semi(opts), Blank >>
                             \o TOKEN_FN(opts) \o <<Blank>>
                             \o LIST_MODES_FN(opts) \o <<Blank>>
                             \o TYPOGRAPHY_MIXIN(opts) \o <<Blank>> ] >>)

\* a build that sorts token.$value and the mode values themselves
TokenAfterBuildSortedInPlace(token) ==
    IF token.type # "typography" THEN token
    ELSE [token EXCEPT
            !.value = [k |-> "props", entries |-> SortEntries(token.value.entries)],
            !.mode = [n \in DOMAIN token.mode |->
                        <<token.mode[n][1],
                          [k |-> "props", entries |-> SortEntries(token.mode[n][2].entries)]>>]]

\* What build() leaves of a token it has gone through: Object.entries
\* hands sort() a fresh array, so the token keeps its own key order.
TokenAfterBuild(token) == token

----------------------------------------------------------------------------
(* Inputs *)

Names(ns) == [k |-> "names", names |-> ns]
Props(es) == [k |-> "props", entries |-> es]

fontSize == <<"f","o","n","t","S","i","z","e">>
fontFamily == <<"f","o","n","t","F","a","m","i","l","y">>
fontWeight == <<"f","o","n","t","-","w","e","i","g","h","t">>
letterSpacing == <<"l","e","t","t","e","r","S","p","a","c","i","n","g">>
columns == <<"c","o","l","u","m","n","s">>
columnWidth == <<"c","o","l","u","m","n","W","i","d","t","h">>

\* a shadow layer, and a shadow $value that is an array of layers
Layer(offsetX, offsetY, blur, spread, color) ==
    [offsetX |-> offsetX, offsetY |-> offsetY, blur |-> blur, spread |-> spread,
     color |-> color]
Layers(layers) == [k |-> "layers", layers |-> layers]

SansStack == Names(<< <<"Open", "Sans">>, <<"Arial">> >>)

\* sample tokens without their id: [type, value, mode]
TokenPool == {
    [type |-> "color", value |-> Str("#f00"), mode |-> <<>>],
    [type |-> "color", value |-> Str("#f00"),
        mode |-> << <<"light", Str("#fff")>>, <<"dark", Str("#000")>> >>],
    [type |-> "color", value |-> Str("#f00"),
        mode |-> << <<"dark", Str("#000")>>, <<"light", Str("#fff")>> >>],
    [type |-> "color", value |-> Str("#f00"), mode |-> << <<"dark", Str("")>> >>],
    [type |-> "dimension", value |-> Str("8px"), mode |-> << <<"dark", Str("4px")>> >>],
    [type |-> "duration", value |-> Str("100ms"), mode |-> <<>>],
    [type |-> "font", value |-> SansStack, mode |-> <<>>],
    [type |-> "cubicBezier", value |-> [k |-> "nums", n |-> <<0, 0, 1, 1>>], mode |-> <<>>],
    [type |-> "link", value |-> Str("a.svg"), mode |-> << <<"dark", Str("b.svg")>> >>],
    [type |-> "shadow",
        value |-> [k |-> "shadow", offsetX |-> "0", offsetY |-> "2px", blur |-> "4px",
                   spread |-> "0", color |-> "#000"],
        mode |-> <<>>],
    [type |-> "shadow",
        value |-> Layers(<< Layer("0", "2px", "4px", "0", "#000") >>),
        mode |-> << <<"dark", Layers(<< Layer("0", "1px", "2px", "0", "#111"),
                                        Layer("0", "4px", "8px", "1px", "#222") >>)>> >>],
    [type |-> "gradient",
        value |-> [k |-> "stops", stops |-> << [color |-> "#f00", position |-> 0],
                                               [color |-> "#00f", position |-> 1] >>],
        mode |-> <<>>],
    [type |-> "transition",
        value |-> [k |-> "transition", duration |-> "100ms", delay |-> "0ms",
                   timingFunction |-> <<0, 0, 1, 1>>],
        mode |-> << <<"dark", [k |-> "transition", duration |-> "0ms", delay |-> "0ms",
                               timingFunction |-> <<>>]>> >>],
    [type |-> "typography",
        value |-> Props(<< <<fontSize, Str("16px")>>, <<fontFamily, SansStack>> >>),
        mode |-> << <<"dark", Props(<< <<fontWeight, Str("700")>>,
                                       <<letterSpacing, Str("1px")>> >>)>> >>],
    [type |-> "typography",
        value |-> Props(<< <<fontFamily, SansStack>>, <<fontSize, Str("16px")>> >>),
        mode |-> <<>>],
    [type |-> "typography",
        value |-> Props(<< <<columnWidth, Str("8em")>>, <<columns, Str("2")>> >>),
        mode |-> <<>>],
    [type |-> "number", value |-> Str("1"), mode |-> <<>>] }

\* mode names a caller may ask for; "" is the omitted argument, "hc" is on no token
RequestedModes == {"", "light", "dark", "hc"}

\* the id of the n-th token of the flat sequence
TokenId(n) == "t" \o ToString(n)

WithId(body, n) ==
    [id |-> TokenId(n), type |-> body.type, value |-> body.value, mode |-> body.mode]

TokenSeqs ==
    UNION { { [n \in 1..len |-> WithId(bodies[n], n)] : bodies \in [1..len -> TokenPool] }
            : len \in 0..MaxTokens }

OptionSets ==
    [indentedSyntax : BOOLEAN, embedFiles : BOOLEAN, transform : Transforms]

ResolvedConfig == [outDir |-> "file:///tokens/"]

NoResult == [ok |-> TRUE, files |-> <<>>, error |-> ""]
NoProbe == [n |-> 0, mode |-> "", out |-> Ok("")]

NoFailure == [name |-> "", cause |-> ""]

PipelineIdle ==
    /\ plugins = <<>>
    /\ cursor = 0
    /\ slots = <<>>
    /\ artifacts = <<>>
    /\ persisted = <<>>
    /\ failure = NoFailure
    /\ log = <<>>

NoResolution == [ok |-> TRUE, error |-> "", path |-> <<>>, done |-> {}]

ResolverIdle ==
    /\ graph = <<>>
    /\ resolution = NoResolution

----------------------------------------------------------------------------
(* The plugin on its own, driven as documented: config(), then build() *)

Init ==
    /\ tokens \in TokenSeqs
    /\ options \in OptionSets
    /\ metadata = [name |-> ""]
    /\ config = <<>>
    /\ phase = "instantiated"
    /\ result = NoResult
    /\ probe = NoProbe
    /\ PipelineIdle
    /\ ResolverIdle

\* a config step that does not keep what it is given
SassConfigForgets(c) == <<>>

\* config(c): void { config = c; }
SassConfig(c) == <<c>>

Config ==
    /\ phase = "instantiated"
    /\ config' = SassConfig(ResolvedConfig)
    /\ phase' = "configured"
    /\ UNCHANGED <<tokens, options, result, probe, metadata, pluginVars, resolverVars>>

Build ==
    /\ phase = "configured"
    /\ result' = build(options, config, tokens, metadata)
    /\ tokens' = [n \in DOMAIN tokens |-> TokenAfterBuild(tokens[n])]
    /\ phase' = "built"
    /\ UNCHANGED <<options, config, probe, metadata, pluginVars, resolverVars>>

Next == Config \/ Build

Spec == Init /\ [][Next]_vars

----------------------------------------------------------------------------
(* The exported defaultTransformer, called directly *)

InitTransformer ==
    /\ tokens \in TokenSeqs
    /\ options = [indentedSyntax |-> FALSE, embedFiles |-> FALSE, transform |-> "none"]
    /\ metadata = [name |-> ""]
    /\ config = <<>>
    /\ phase = "loaded"
    /\ result = NoResult
    /\ probe = NoProbe
    /\ PipelineIdle
    /\ ResolverIdle

\* defaultTransformer(token, mode) on a token of the sequence
CallDefaultTransformer ==
    /\ phase = "loaded"
    /\ \E n \in DOMAIN tokens, mode \in RequestedModes :
          probe' = [n |-> n, mode |-> mode, out |-> defaultTransformer(tokens[n], mode)]
    /\ phase' = "probed"
    /\ UNCHANGED <<tokens, options, config, result, metadata, pluginVars, resolverVars>>

NextTransformer == CallDefaultTransformer

SpecTransformer == InitTransformer /\ [][NextTransformer]_vars

----------------------------------------------------------------------------
(* Reading the emitted file back *)

Built == phase = "built"
Returned == Built /\ result.ok
Contents == IF result.files = <<>> THEN <<>> ELSE result.files[1].contents

IsMapEnd(line) == Len(line) >= 2 /\ line[1] = "" /\ line[2] = ")"

\* the lines between `$<name>: (` and the `)` that closes it
MapSection(lines, name) ==
    LET start == CHOOSE n \in DOMAIN lines : lines[n] = <<"", "$" \o name \o ": (">>
        end == CHOOSE n \in DOMAIN lines :
                  /\ n > start
                  /\ IsMapEnd(lines[n])
                  /\ \A m \in (start + 1)..(n - 1) : ~IsMapEnd(lines[m])
    IN  SubSeq(lines, start + 1, end - 1)

\* what a line of the token-values map is: <<kind, name, value>>
LineKey(line) ==
    IF Len(line) = 4 /\ line[1] = Indent(1) /\ line[2] = "\"" /\ line[4] = "\": ("
        THEN <<"entry", line[3], "">>
    ELSE IF Len(line) = 4 /\ line[1] = Indent(2) /\ line[2] = "default: (" /\ line[4] = "),"
        THEN <<"default", "", line[3]>>
    ELSE IF Len(line) = 6 /\ line[1] = Indent(2) /\ line[2] = "\"" /\ line[4] = "\": ("
            /\ line[6] = "),"
        THEN <<"mode", line[3], line[5]>>
    ELSE IF Len(line) = 6 /\ line[1] = Indent(2) /\ line[2] = "\"" /\ line[3] = VAR_ERROR
        THEN <<"error", "", "">>
    ELSE IF line = <<Indent(1), "),">>
        THEN <<"close", "", "">>
    ELSE <<"other", "", "">>

EmittedKeys == LET sec == MapSection(Contents, VAR_TOKENS)
               IN  [n \in DOMAIN sec |-> LineKey(sec[n])]

\* kind and name only
Shape(keys) == [n \in DOMAIN keys |-> <<keys[n][1], keys[n][2]>>]

\* the lines the ordering rule asks of one token
ExpectedShapeOf(token) ==
    << <<"entry", token.id>> >>
    \o (IF token.type = "typography" THEN << <<"error", "">> >>
        ELSE << <<"default", "">> >>
             \o [n \in DOMAIN token.mode |-> <<"mode", token.mode[n][1]>>])
    \o << <<"close", "">> >>

RECURSIVE Flatten(_)
Flatten(seqs) == IF seqs = <<>> THEN <<>> ELSE Head(seqs) \o Flatten(Tail(seqs))

ExpectedShape == Flatten([n \in DOMAIN tokens |-> ExpectedShapeOf(tokens[n])])

\* C2: when build returns, the token-values map holds one entry per token
\* in the order of the input sequence, and each entry of a token that is not
\* typography is its default line followed by one line per key of
\* $extensions.mode, in the key order of that mapping.
C2_EmissionOrder == Returned => Shape(EmittedKeys) = ExpectedShape

C2_Witness ==
    /\ Returned
    /\ Len(tokens) = 2
    /\ Len(tokens[2].mode) = 2
    /\ tokens[2].mode[1][1] = "dark"
    /\ tokens[1].type = "typography"

----------------------------------------------------------------------------
(* The override chain *)

\* the value lines of the map, in order: <<value>> per default or mode line
EmittedValues ==
    LET vals == SelectSeq(EmittedKeys, LAMBDA key : key[1] \in {"default", "mode"})
    IN  [n \in DOMAIN vals |-> vals[n][3]]

\* "" for an override that is absent or returns a falsy result
Override(token, mode) ==
    IF options.transform = "none" THEN "" ELSE ApplyTransform(options, token, mode)

\* the pairs build goes through for a token: the default, then each mode
PairsOf(token) == <<"">> \o [n \in DOMAIN token.mode |-> token.mode[n][1]]

\* what the claim asks of (token, mode)
ClaimedValue(token, mode) ==
    IF Override(token, mode) # "" THEN Override(token, mode)
    ELSE defaultTransformer(token, mode).v

ClaimedValuesOf(token) ==
    [n \in DOMAIN PairsOf(token) |-> ClaimedValue(token, PairsOf(token)[n])]

\* C1 as stated: for every token, typography included, and every pair the
\* emitted value is the non-empty override result, else the result of
\* defaultTransformer.
C1_Original ==
    Returned => EmittedValues = Flatten([n \in DOMAIN tokens |-> ClaimedValuesOf(tokens[n])])

Embedded(token, v) ==
    IF token.type = "link" /\ options.embedFiles THEN encode(v, config[1].outDir) ELSE v

AmendedValuesOf(token) ==
    IF token.type = "typography" THEN <<>>
    ELSE [n \in DOMAIN PairsOf(token) |->
            Embedded(token, ClaimedValue(token, PairsOf(token)[n]))]

\* a pair whose override is absent or falsy and whose default transformer throws
Unformattable(token) ==
    /\ token.type # "typography"
    /\ \E n \in DOMAIN PairsOf(token) :
          /\ Override(token, PairsOf(token)[n]) = ""
          /\ ~defaultTransformer(token, PairsOf(token)[n]).ok

\* C1 as amended: build raises exactly when some pair of a non-typography
\* token has no override result and a throwing default transformer; when it
\* returns, every pair of every non-typography token carries the non-empty
\* override result, else the result of defaultTransformer, passed through
\* encode for a link token under embedFiles; typography tokens carry neither.
C1_OverrideChain ==
    Built =>
        /\ result.ok <=> ~\E n \in DOMAIN tokens : Unformattable(tokens[n])
        /\ result.ok =>
              EmittedValues = Flatten([n \in DOMAIN tokens |-> AmendedValuesOf(tokens[n])])

C1_Witness ==
    /\ Returned
    /\ options.transform = "defaultOnly"
    /\ options.embedFiles
    /\ Len(tokens) = 2
    /\ tokens[1].type = "link"
    /\ tokens[2].type = "typography"

----------------------------------------------------------------------------
(* Typography property names *)

\* UTF-16 code unit of a hyphen or a letter
CodeUnit(c) ==
    IF IsUpper(c) THEN 64 + (CHOOSE n \in DOMAIN Uppers : Uppers[n] = c)
    ELSE IF IsLower(c) THEN 96 + (CHOOSE n \in DOMAIN Lowers : Lowers[n] = c)
    ELSE 45

LexCompare(a, b) ==
    SeqCompare([n \in DOMAIN a |-> CodeUnit(a[n])], [n \in DOMAIN b |-> CodeUnit(b[n])])

RECURSIVE LexInsert(_, _)
LexInsert(name, sorted) ==
    IF sorted = <<>> THEN <<name>>
    ELSE IF LexCompare(name, Head(sorted)) < 0 THEN <<name>> \o sorted
    ELSE <<Head(sorted)>> \o LexInsert(name, Tail(sorted))

RECURSIVE LexSort(_)
LexSort(names) ==
    IF names = <<>> THEN <<>> ELSE LexInsert(Head(names), LexSort(Tail(names)))

\* what a line of the typography map is: <<kind, name>>
TypographyKey(line) ==
    IF Len(line) = 4 /\ line[1] = Indent(1) /\ line[2] = "\"" /\ line[4] = "\": ("
        THEN <<"entry", line[3]>>
    ELSE IF line = <<Indent(2), "default: (">> THEN <<"block", "default">>
    ELSE IF Len(line) = 4 /\ line[1] = Indent(2) /\ line[2] = "\"" /\ line[4] = "\": ("
        THEN <<"block", line[3]>>
    ELSE IF Len(line) = 6 /\ line[1] = Indent(3) /\ line[2] = "\"" /\ line[4] = "\": ("
        THEN <<"property", line[3]>>
    ELSE IF line = <<Indent(2), "),">> THEN <<"end", "block">>
    ELSE IF line = <<Indent(1), "),">> THEN <<"end", "entry">>
    ELSE <<"other", "">>

EmittedTypography == LET sec == MapSection(Contents, VAR_TYPOGRAPHY)
                     IN  [n \in DOMAIN sec |-> TypographyKey(sec[n])]

\* the property lines the claim asks of one property mapping: the hyphenated
\* lower-case names, in lexicographic order of those names
SortedNames(props) ==
    LET names == LexSort([n \in DOMAIN props.entries |-> PropertyName(props.entries[n][1])])
    IN  [n \in DOMAIN names |-> <<"property", Text(names[n])>>]

SortedBlock(name, props) ==
    << <<"block", name>> >> \o SortedNames(props) \o << <<"end", "block">> >>

SortedTypographyOf(token) ==
    << <<"entry", token.id>> >>
    \o SortedBlock("default", token.value)
    \o Flatten([n \in DOMAIN token.mode |-> SortedBlock(token.mode[n][1], token.mode[n][2])])
    \o << <<"end", "entry">> >>

TypographyTokens == SelectSeq(tokens, LAMBDA t : t.type = "typography")

\* C3 as stated: for every typography token, its default value and each of
\* its mode values, the emitted property names are the hyphenated lower-case
\* forms of the source keys in lexicographic order of the emitted names (so
\* that the order of the source keys does not show).
C3_Original ==
    Returned =>
        EmittedTypography =
            Flatten([n \in DOMAIN TypographyTokens |-> SortedTypographyOf(TypographyTokens[n])])

----------------------------------------------------------------------------
(* defaultTransformer called directly *)

Format(type, value) ==
    CASE type = "color" -> transformColor(value)
      [] type = "dimension" -> transformDimension(value)
      [] type = "duration" -> transformDuration(value)
      [] type = "font" -> transformFont(value)
      [] type = "cubicBezier" -> transformCubicBezier(value)
      [] type = "link" -> transformLink(value)
      [] type = "shadow" -> transformShadow(value)
      [] type = "gradient" -> transformGradient(value)
      [] type = "transition" -> transformTransition(value)

Probed == phase = "probed" /\ tokens[probe.n].type \in SupportedTypes

\* C4 as stated: for a token of a supported type, defaultTransformer formats
\* $extensions.mode[mode] when the token has that mode and the default
\* $value otherwise, and never fails over an absent mode.
C4_Original ==
    Probed =>
        LET token == tokens[probe.n]
        IN  /\ probe.out.ok
            /\ probe.out.v =
                  Format(token.type,
                         IF HasMode(token, probe.mode) THEN ModeValue(token, probe.mode)
                         ELSE token.value)

\* C4 as amended: for a token of a supported type, defaultTransformer
\* formats the default $value when no mode is asked for, formats
\* $extensions.mode[mode] when the token has that mode with a value that is
\* not falsy, and otherwise throws the missing-mode error naming the token
\* and the mode; it does not fall back to the default $value.
C4_ModeLookup ==
    Probed =>
        LET token == tokens[probe.n]
        IN  IF probe.mode = ""
            THEN probe.out = Ok(Format(token.type, token.value))
            ELSE IF HasMode(token, probe.mode) /\ Truthy(ModeValue(token, probe.mode))
            THEN probe.out = Ok(Format(token.type, ModeValue(token, probe.mode)))
            ELSE /\ ~probe.out.ok
                 /\ probe.out.v = "Token " \o token.id \o " missing \"$extensions.mode."
                                    \o probe.mode \o "\""

C4_Witness ==
    /\ Probed
    /\ probe.mode = "hc"
    /\ ~probe.out.ok
    /\ tokens[probe.n].mode # <<>>

----------------------------------------------------------------------------
(* Shadow layers *)

\* the value defaultTransformer was asked to format
ProbedValue ==
    IF probe.mode = "" THEN tokens[probe.n].value
    ELSE ModeValue(tokens[probe.n], probe.mode)

\* defaultTransformer has formatted a shadow value that is a sequence of layers
ProbedLayers ==
    /\ phase = "probed"
    /\ tokens[probe.n].type = "shadow"
    /\ probe.mode # "" => HasMode(tokens[probe.n], probe.mode)
    /\ ProbedValue.k = "layers"

\* what may stand between two fields or two layers of the emitted value
Separators == {" ", ", ", ",", " / "}

\* the five fields of every layer, in layer order
LayersText(layers, fieldSep, layerSep) ==
    Join([n \in DOMAIN layers |->
            Join(<<layers[n].offsetX, layers[n].offsetY, layers[n].blur,
                   layers[n].spread, layers[n].color>>, fieldSep)], layerSep)

\* C11 as stated: for a shadow token whose value is a sequence of one or
\* more layers, the value transformShadow emits holds offsetX, offsetY,
\* blur, spread and color of every layer, in layer order; for a sequence of
\* one layer it is the five fields of that layer.
C11_Original ==
    ProbedLayers =>
        /\ probe.out.ok
        /\ \E fieldSep \in Separators, layerSep \in Separators :
              probe.out.v = LayersText(ProbedValue.layers, fieldSep, layerSep)

----------------------------------------------------------------------------
(* Modes of a token in the build *)

\* the token-values map holds a mode line named `mode` inside the entry of
\* the token: after its entry line, with no close line in between
ModeEntryEmitted(token, mode) ==
    \E e \in DOMAIN EmittedKeys, m \in DOMAIN EmittedKeys :
        /\ e < m
        /\ EmittedKeys[e][1] = "entry" /\ EmittedKeys[e][2] = token.id
        /\ EmittedKeys[m][1] = "mode" /\ EmittedKeys[m][2] = mode
        /\ \A c \in (e + 1)..(m - 1) : EmittedKeys[c][1] # "close"

\* C12 as stated: for every token of a supported type other than
\* typography and every key of its own $extensions.mode, the build does not
\* raise the missing-mode error for that token and mode, and a build that
\* returns has emitted an entry for the mode, whatever the value under the
\* key (empty included) and with or without an override transform.
C12_Original ==
    Built =>
        \A n \in DOMAIN tokens :
            tokens[n].type \in SupportedTypes =>
                \A i \in DOMAIN tokens[n].mode :
                    /\ result.ok \/ result.error # MissingModeError(tokens[n], tokens[n].mode[i][1])
                    /\ result.ok => ModeEntryEmitted(tokens[n], tokens[n].mode[i][1])

----------------------------------------------------------------------------
(* The two syntaxes *)

Delimiters == {";", "{", "}"}

NoDelimiters(lines) ==
    \A n \in DOMAIN lines : \A i \in DOMAIN lines[n] : lines[n][i] \notin Delimiters

\* a line without its delimiters and the blanks around them
Statement(line) ==
    SelectSeq(line, LAMBDA piece : piece \notin Delimiters /\ ~IsSpace(piece))

Statements(lines) ==
    SelectSeq([n \in DOMAIN lines |-> Statement(lines[n])], LAMBDA line : line # <<>>)

OtherSyntax ==
    build([options EXCEPT !.indentedSyntax = ~@], config, tokens, metadata)

\* C5 as stated: the files built with and without indentedSyntax hold the
\* same statements and blocks, and with indentedSyntax no statement of the
\* file ends in ; and no block is delimited by braces.
C5_Original ==
    Returned =>
        /\ Statements(Contents) = Statements(OtherSyntax.files[1].contents)
        /\ options.indentedSyntax => NoDelimiters(Contents)

----------------------------------------------------------------------------
(* Inputs of build are left alone *)

\* C10: a build step, whether it returns or raises, leaves every token of
\* the input sequence (value, modes and key order) and the captured
\* ResolvedConfig as they were.
C10_InputsUnchanged ==
    [][phase = "configured" /\ phase' = "built" => tokens' = tokens /\ config' = config]_vars

C10_Witness ==
    /\ Returned
    /\ tokens # <<>>
    /\ tokens[1].type = "typography"
    /\ SortEntries(tokens[1].value.entries) # tokens[1].value.entries

----------------------------------------------------------------------------
(* The plugin build pipeline: configure every plugin, then build *)

\* name: '@cobalt-ui/plugin-sass'
SassName == "@cobalt-ui/plugin-sass"

\* A registered plugin is [name, kind, config, returns]:
\*   config   "none" (no config step), "ok", "raise"
\*   returns  what its build step yields: "none", "one" or "two" files,
\*            "raise", or "sass" for the stylesheet plugin
SassPlugin == [kind |-> "sass", config |-> "ok", returns |-> "sass"]

PluginPool ==
    {SassPlugin} \cup [kind : {"other"}, config : {"none", "ok", "raise"},
                       returns : {"none", "one", "two", "raise"}]

Registered(body, n) ==
    [name |-> IF body.kind = "sass" THEN SassName ELSE "plugin-" \o ToString(n),
     kind |-> body.kind, config |-> body.config, returns |-> body.returns]

PluginSeqs ==
    UNION { { [n \in 1..len |-> Registered(bodies[n], n)] :
                bodies \in { b \in [1..len -> PluginPool] :
                               Cardinality({n \in 1..len : b[n].kind = "sass"}) <= 1 } }
            : len \in 1..MaxPlugins }

File(name) == [filename |-> name, contents |-> <<>>]

\* plugin.build({tokens, metadata}) up to its first suspension
InvokeBuild(plugin, opts, cfg, toks, meta) ==
    CASE plugin.returns = "sass" -> build(opts, cfg, toks, meta)
      [] plugin.returns = "none" -> BuildOk(<<>>)
      [] plugin.returns = "one" -> BuildOk(<<File(plugin.name \o "/a.json")>>)
      [] plugin.returns = "two" ->
            BuildOk(<<File(plugin.name \o "/b.json"), File(plugin.name \o "/a.json")>>)
      [] OTHER -> BuildRaised("build failed")

\* a plugin-phase failure, annotated with the name of the plugin
PluginError(plugin, cause) == [name |-> plugin.name, cause |-> cause]

Idle == [state |-> "idle", out |-> NoResult]

\* results joined in completion order
AggregateAsCompleted(outcomes, history) ==
    LET done == SelectSeq(history, LAMBDA e : e[1] = "settled")
    IN  Flatten([n \in DOMAIN done |-> outcomes[done[n][2]].out.files])

\* results joined in registration order
Aggregate(outcomes, history) ==
    Flatten([n \in DOMAIN outcomes |-> outcomes[n].out.files])

PipelineTokens ==
    { <<WithId(body, 1)>> :
        body \in { [type |-> "color", value |-> Str("#f00"), mode |-> <<>>],
                   [type |-> "link", value |-> Str("a.svg"),
                       mode |-> << <<"dark", Str("b.svg")>> >>],
                   [type |-> "number", value |-> Str("1"), mode |-> <<>>] } }

InitPipeline ==
    /\ plugins \in PluginSeqs
    /\ tokens \in PipelineTokens
    /\ options \in [indentedSyntax : {FALSE}, embedFiles : BOOLEAN, transform : {"none"}]
    /\ metadata \in {[name |-> ""], [name |-> "Brand"]}
    /\ config = <<>>
    /\ phase = "configure"
    /\ cursor = 1
    /\ slots = [n \in DOMAIN plugins |-> Idle]
    /\ artifacts = <<>>
    /\ persisted = <<>>
    /\ failure = NoFailure
    /\ log = <<>>
    /\ result = NoResult
    /\ probe = NoProbe
    /\ ResolverIdle

Advance ==
    IF cursor = Len(plugins)
    THEN phase' = "build" /\ cursor' = 1
    ELSE phase' = phase /\ cursor' = cursor + 1

\* the configure phase reaches a plugin that has no config step
SkipConfigure ==
    /\ phase = "configure"
    /\ plugins[cursor].config = "none"
    /\ Advance
    /\ UNCHANGED <<tokens, options, config, result, probe, metadata, plugins, slots,
                   artifacts, persisted, failure, log, resolverVars>>

\* plugin.config(resolvedConfig), in registration order
Configure ==
    /\ phase = "configure"
    /\ plugins[cursor].config = "ok"
    /\ config' = IF plugins[cursor].kind = "sass" THEN SassConfig(ResolvedConfig) ELSE config
    /\ log' = Append(log, <<"config", cursor>>)
    /\ Advance
    /\ UNCHANGED <<tokens, options, result, probe, metadata, plugins, slots,
                   artifacts, persisted, failure, resolverVars>>

ConfigureFails ==
    /\ phase = "configure"
    /\ plugins[cursor].config = "raise"
    /\ failure' = PluginError(plugins[cursor], "config failed")
    /\ phase' = "failed"
    /\ UNCHANGED <<tokens, options, config, result, probe, metadata, plugins, cursor,
                   slots, artifacts, persisted, log, resolverVars>>

\* plugin.build(...) is invoked, in registration order; its promise is pending
StartBuild ==
    /\ phase = "build"
    /\ cursor <= Len(plugins)
    /\ slots' = [slots EXCEPT ![cursor] =
                    [state |-> "running",
                     out |-> InvokeBuild(plugins[cursor], options, config, tokens, metadata)]]
    /\ tokens' = IF plugins[cursor].kind = "sass"
                 THEN [n \in DOMAIN tokens |-> TokenAfterBuild(tokens[n])]
                 ELSE tokens
    /\ log' = Append(log, <<"build", cursor>>)
    /\ cursor' = cursor + 1
    /\ UNCHANGED <<options, config, phase, result, probe, metadata, plugins,
                   artifacts, persisted, failure, resolverVars>>

\* the promise of plugin n fulfils
Settle(n) ==
    /\ phase = "build"
    /\ slots[n].state = "running"
    /\ slots[n].out.ok
    /\ slots' = [slots EXCEPT ![n].state = "settled"]
    /\ log' = Append(log, <<"settled", n>>)
    /\ UNCHANGED <<tokens, options, config, phase, result, probe, metadata, plugins,
                   cursor, artifacts, persisted, failure, resolverVars>>

\* the promise of plugin n rejects: the build fails, nothing is written
Reject(n) ==
    /\ phase = "build"
    /\ slots[n].state = "running"
    /\ ~slots[n].out.ok
    /\ failure' = PluginError(plugins[n], slots[n].out.error)
    /\ phase' = "failed"
    /\ UNCHANGED <<tokens, options, config, result, probe, metadata, plugins, cursor,
                   slots, artifacts, persisted, log, resolverVars>>

\* every plugin has settled: the results are joined and handed to the writer
Finish ==
    /\ phase = "build"
    /\ \A n \in DOMAIN slots : slots[n].state = "settled"
    /\ artifacts' = Aggregate(slots, log)
    /\ persisted' = artifacts'
    /\ phase' = "done"
    /\ UNCHANGED <<tokens, options, config, result, probe, metadata, plugins, cursor,
                   slots, failure, log, resolverVars>>

NextPipeline ==
    \/ SkipConfigure
    \/ Configure
    \/ ConfigureFails
    \/ StartBuild
    \/ \E n \in DOMAIN plugins : Settle(n)
    \/ \E n \in DOMAIN plugins : Reject(n)
    \/ Finish

SpecPipeline == InitPipeline /\ [][NextPipeline]_vars

----------------------------------------------------------------------------
(* Claims on the pipeline *)

Logged(kind, n) == \E a \in DOMAIN log : log[a] = <<kind, n>>

\* C6: the config steps run in registration order, all of them before any
\* build step starts, and the stylesheet plugin builds with the config its
\* config step stored: what it returns or raises is what build gives with
\* the ResolvedConfig in hand.
C6_ConfigureBeforeBuild ==
    /\ \A a, b \in DOMAIN log :
          a < b /\ log[a][1] # "config" => log[b][1] # "config"
    /\ \A a, b \in DOMAIN log :
          a < b /\ log[a][1] = "config" /\ log[b][1] = "config" => log[a][2] < log[b][2]
    /\ \A n \in DOMAIN plugins :
          slots[n].state # "idle" =>
              \A m \in DOMAIN plugins : plugins[m].config # "none" => Logged("config", m)
    /\ \A n \in DOMAIN plugins :
          plugins[n].kind = "sass" /\ slots[n].state # "idle" =>
              /\ config = <<ResolvedConfig>>
              /\ slots[n].out = build(options, <<ResolvedConfig>>, tokens, metadata)

C6_Witness ==
    /\ phase = "done"
    /\ Len(plugins) = 2
    /\ plugins[1].kind = "sass"
    /\ plugins[2].config = "ok"
    /\ tokens[1].type = "link"
    /\ options.embedFiles

\* what plugin n returns from its build step
ReturnedFiles(n) ==
    InvokeBuild(plugins[n], options, <<ResolvedConfig>>, tokens, metadata).files

\* C7: the aggregated artifact list holds the results of every plugin in
\* the order the plugin returned them, those of an earlier-registered plugin
\* before those of a later one, whatever the order in which the build steps
\* completed.
C7_RegistrationOrder ==
    phase = "done" => artifacts = Flatten([n \in DOMAIN plugins |-> ReturnedFiles(n)])

C7_Witness ==
    /\ phase = "done"
    /\ Len(plugins) = 2
    /\ plugins[1].returns = "two"
    /\ plugins[2].returns = "sass"
    /\ \E a, b \in DOMAIN log :
          a < b /\ log[a] = <<"settled", 2>> /\ log[b] = <<"settled", 1>>

RaisedBuild(n) == slots[n].state # "idle" /\ ~slots[n].out.ok

\* C8: once the build step of a plugin has raised, the build cannot
\* complete and nothing is persisted; a run that is neither done nor failed
\* can go on, so it ends failed; the failure carries the name of a plugin
\* whose step raised; and the stylesheet plugin does raise on a token of an
\* unsupported $type.
C8_FailedBuild ==
    /\ (\E n \in DOMAIN plugins : RaisedBuild(n)) =>
          phase # "done" /\ persisted = <<>> /\ artifacts = <<>>
    /\ phase \notin {"done", "failed"} => ENABLED NextPipeline
    /\ phase = "failed" =>
          /\ persisted = <<>>
          /\ \E n \in DOMAIN plugins :
                /\ failure.name = plugins[n].name
                /\ IF failure.cause = "config failed"
                   THEN plugins[n].config = "raise"
                   ELSE RaisedBuild(n) /\ failure.cause = slots[n].out.error
    /\ \A n \in DOMAIN plugins :
          /\ plugins[n].kind = "sass"
          /\ slots[n].state # "idle"
          /\ tokens[1].type \notin SupportedTypes \cup {"typography"}
          => RaisedBuild(n)

C8_Witness ==
    /\ phase = "failed"
    /\ Len(plugins) = 2
    /\ plugins[1].returns = "one"
    /\ slots[1].state = "settled"
    /\ failure.name = SassName
    /\ failure.cause = "No transformer defined for $type: number tokens"
    /\ persisted = <<>>

----------------------------------------------------------------------------
(* The alias resolver: depth-first, with the active path as in-progress set *)

\* the tokens of the document, in declaration order
DeclaredIds == <<"a", "b", "c">>
Declared == {DeclaredIds[n] : n \in DOMAIN DeclaredIds}

\* ids an alias may name: the declared ones and one that is not declared
AliasTargets == Declared \cup {"z"}

\* the aliases found in a token, in the order met: at top level or nested in
\* a composite value, plain or mode-qualified, each is an edge to its target
RefSeqs == UNION { [1..len -> AliasTargets] : len \in 0..MaxRefs }

Graphs == [Declared -> RefSeqs]

OnPath(path, id) == \E n \in DOMAIN path : path[n] = id

\* a cycle path that leaves out the closing node
CyclePathOpen(path, id) ==
    SubSeq(path, CHOOSE n \in DOMAIN path : path[n] = id, Len(path))

\* the full cycle path: from the node met again, along the active path, back to it
CyclePath(path, id) ==
    SubSeq(path, CHOOSE n \in DOMAIN path : path[n] = id, Len(path)) \o <<id>>

Resolved(done) == [ok |-> TRUE, error |-> "", path |-> <<>>, done |-> done]
CircularReferenceError(path) ==
    [ok |-> FALSE, error |-> "CircularReferenceError", path |-> path, done |-> {}]
UnknownTokenError(id) ==
    [ok |-> FALSE, error |-> "UnknownTokenError", path |-> <<id>>, done |-> {}]

\* resolve the aliases of token id from its k-th on; path is the active path
\* (it ends in id), done the tokens already resolved and memoized
RECURSIVE VisitRefs(_, _, _, _, _)
VisitRefs(g, id, k, path, done) ==
    IF k > Len(g[id]) THEN Resolved(done \cup {id})
    ELSE LET target == g[id][k]
         IN  IF target \notin Declared THEN UnknownTokenError(target)
             ELSE IF OnPath(path, target) THEN CircularReferenceError(CyclePath(path, target))
             ELSE IF target \in done THEN VisitRefs(g, id, k + 1, path, done)
             ELSE LET r == VisitRefs(g, target, 1, Append(path, target), done)
                  IN  IF ~r.ok THEN r ELSE VisitRefs(g, id, k + 1, path, r.done)

\* resolve every token, in declaration order, from the n-th on
RECURSIVE ResolveFrom(_, _, _)
ResolveFrom(g, n, done) ==
    IF n > Len(DeclaredIds) THEN Resolved(done)
    ELSE IF DeclaredIds[n] \in done THEN ResolveFrom(g, n + 1, done)
    ELSE LET r == VisitRefs(g, DeclaredIds[n], 1, <<DeclaredIds[n]>>, done)
         IN  IF ~r.ok THEN r ELSE ResolveFrom(g, n + 1, r.done)

ResolveAliases(g) == ResolveFrom(g, 1, {})

InitResolver ==
    /\ graph \in Graphs
    /\ resolution = NoResolution
    /\ phase = "parsed"
    /\ tokens = <<>>
    /\ options = [indentedSyntax |-> FALSE, embedFiles |-> FALSE, transform |-> "none"]
    /\ metadata = [name |-> ""]
    /\ config = <<>>
    /\ result = NoResult
    /\ probe = NoProbe
    /\ PipelineIdle

\* resolution runs to its end or to its first error, which fails the build
Resolve ==
    /\ phase = "parsed"
    /\ resolution' = ResolveAliases(graph)
    /\ phase' = IF resolution'.ok THEN "resolved" ELSE "failed"
    /\ UNCHANGED <<tokens, options, config, result, probe, metadata, pluginVars, graph>>

\* the resolved token list is handed to the plugins
HandToPlugins ==
    /\ phase = "resolved"
    /\ phase' = "configure"
    /\ UNCHANGED <<tokens, options, config, result, probe, metadata, pluginVars, resolverVars>>

NextResolver == Resolve \/ HandToPlugins

SpecResolver == InitResolver /\ [][NextResolver]_vars

\* the ids reachable from id by one or more aliases
RECURSIVE ReachFrom(_, _)
ReachFrom(g, seen) ==
    LET more == seen \cup {t \in Declared : \E s \in seen : OnPath(g[s], t)}
    IN  IF more = seen THEN seen ELSE ReachFrom(g, more)

Reaches(g, id) == ReachFrom(g, {t \in Declared : OnPath(g[id], t)})

HasCycle(g) == \E id \in Declared : id \in Reaches(g, id)
AllTargetsDeclared(g) == \A id \in Declared : \A n \in DOMAIN g[id] : g[id][n] \in Declared

IsCycleOf(g, path) ==
    /\ Len(path) >= 2
    /\ path[1] = path[Len(path)]
    /\ \A n \in 1..(Len(path) - 1) : OnPath(g[path[n]], path[n + 1])

Ring == [id \in Declared |->
            CASE id = "a" -> <<"b">> [] id = "b" -> <<"c">> [] OTHER -> <<"a">>]

====
